---- MODULE Spec2Model ----
(***************************************************************************)
(* Model of water_column_correction.py (Lyzenga 1978 water column          *)
(* correction): compute_Xi, linear_regression, Aij, Y_i, depth_invariant   *)
(* and reshape_di.  One behaviour is one call of one of the functions on   *)
(* inputs drawn from bounded sets, run statement by statement.             *)
(*                                                                         *)
(* Arithmetic is exact real arithmetic.  A number is kept symbolically as  *)
(* (n/d)*sqrt(m) with m squarefree, which is closed under the products,    *)
(* square roots and row sums the code takes; IEEE inf and nan are kept as  *)
(* kinds of their own.  Indices are 0-based as in the source; At(s, k)     *)
(* reads the 0-based element k of a TLA+ sequence.                         *)
(***************************************************************************)
EXTENDS Integers, Sequences, FiniteSets, TLC

VARIABLES
    op,               \* the function called
    pc,               \* position in it: "<fn>_start", "<fn>_loop", "done", "raised", ...
    err,              \* the exception raised ("none" when none)
    ret,              \* the value returned (<<>> until the return)
    it,               \* position of a for loop that has no index variable
    bands, list_deep_water, list_Xi,            \* compute_Xi, reshape_di
    list_X, Z, list_slope, list_intercept,      \* linear_regression
    b, N, A, i, j,                              \* Aij, Y_i, depth_invariant
    X, Yi,                                      \* depth_invariant
    di, reshaped                                \* reshape_di

vars == <<op, pc, err, ret, it, bands, list_deep_water, list_Xi,
          list_X, Z, list_slope, list_intercept, b, N, A, i, j, X, Yi, di, reshaped>>

xiVars == <<list_deep_water, list_Xi>>
lrVars == <<list_X, Z, list_slope, list_intercept>>
aijVars == <<b, N, j>>
diVars == <<X, Yi>>
rsVars == <<di, reshaped>>

\* ------------------------------------------------------------------ bounds
\* Largest number of slopes handed to Aij.
MaxN == 3
\* Slopes range over -MaxSlope..MaxSlope.
MaxSlope == 2
\* Largest number of bands in a list of rasters, offsets or Xi vectors.
MaxBands == 2
\* Rasters have 1..MaxDim rows and 1..MaxDim columns.
MaxDim == 2
\* Pixel seeds, deep water means and matrix seeds range over 0..MaxVal.
MaxVal == 1
\* Calibration vectors have 1..MaxLen points.
MaxLen == 2
\* Matrices handed to depth_invariant have 1..MaxMat rows and columns.
MaxMat == 3
\* ... and 1..MaxPix pixels per row of X.
MaxPix == 2

\* ------------------------------------------------------------ sequences
At(s, k) == s[k + 1]

InRange(s, k) == k >= 0 /\ k < Len(s)

Range0(n) == 0 .. (n - 1)

RECURSIVE SeqsUpTo(_, _)
\* All sequences over S of length 1..n.
SeqsUpTo(S, n) == IF n = 0 THEN {} ELSE SeqsUpTo(S, n - 1) \cup [1..n -> S]

\* ------------------------------------------------------------ real numbers
Abs(x) == IF x < 0 THEN -x ELSE x

Sgn(x) == IF x < 0 THEN -1 ELSE IF x = 0 THEN 0 ELSE 1

RECURSIVE GCD(_, _)
GCD(x, y) == IF y = 0 THEN x ELSE GCD(y, x % y)

\* The largest s with s*s dividing n (n >= 1).
SqPart(n) == CHOOSE s \in 1..n : /\ n % (s * s) = 0
                                 /\ \A t \in (s + 1)..n : t * t > n \/ n % (t * t) # 0

\* (n/d)*sqrt(m), reduced: d > 0, gcd(n, d) = 1, m squarefree, zero is 0/1*sqrt(1).
Fin(n, d, m) ==
    IF n = 0 THEN [k |-> "fin", n |-> 0, d |-> 1, m |-> 1]
    ELSE LET g == GCD(Abs(n), d)
         IN  [k |-> "fin", n |-> n \div g, d |-> d \div g, m |-> m]

IntVal(x) == Fin(x, 1, 1)

NaN == [k |-> "nan", n |-> 0, d |-> 1, m |-> 1]

Inf(s) == [k |-> "inf", n |-> s, d |-> 1, m |-> 1]

\* A sum of terms with different radicals: a real number outside the
\* one-term form (and never zero when it has two terms).
Irr == [k |-> "irr", n |-> 0, d |-> 1, m |-> 1]

\* A cell of np.empty that has not been assigned.
Uninit == [k |-> "uninit", n |-> 0, d |-> 1, m |-> 1]

IsZero(x) == x.k = "fin" /\ x.n = 0

IsFinite(x) == x.k = "fin"

\* x ** 0.5 for an integer x >= 0.
PowHalf(x) == IF x = 0 THEN IntVal(0)
              ELSE LET s == SqPart(x) IN Fin(s, 1, x \div (s * s))

\* x ** (-0.5) for an integer x >= 0: 0 ** (-0.5) is inf in numpy.
PowNegHalf(x) == IF x = 0 THEN Inf(1)
                 ELSE LET s == SqPart(x)
                          m == x \div (s * s)
                      IN  Fin(1, s * m, m)

\* IEEE product: nan is absorbing, inf * 0 is nan.
Mul(x, y) ==
    IF x.k \in {"nan", "irr", "uninit"} \/ y.k \in {"nan", "irr", "uninit"}
    THEN (IF x.k = "irr" \/ y.k = "irr" THEN Irr ELSE NaN)
    ELSE IF x.k = "inf" \/ y.k = "inf"
    THEN (IF IsZero(x) \/ IsZero(y) THEN NaN ELSE Inf(Sgn(x.n) * Sgn(y.n)))
    ELSE LET g == GCD(x.m, y.m)
         IN  Fin(x.n * y.n * g, x.d * y.d, (x.m \div g) * (y.m \div g))

\* IEEE sum: inf + (-inf) is nan.
Add(x, y) ==
    IF x.k \in {"nan", "uninit"} \/ y.k \in {"nan", "uninit"} THEN NaN
    ELSE IF x.k = "inf" \/ y.k = "inf"
    THEN (IF x.k = "inf" /\ y.k = "inf" /\ x.n # y.n THEN NaN
          ELSE IF x.k = "inf" THEN x ELSE y)
    ELSE IF x.k = "irr" \/ y.k = "irr" THEN Irr
    ELSE IF IsZero(x) THEN y
    ELSE IF IsZero(y) THEN x
    ELSE IF x.m # y.m THEN Irr
    ELSE Fin(x.n * y.d + y.n * x.d, x.d * y.d, x.m)

\* ------------------------------------------------------------------ arrays
\* np.shape of a 2D array kept as a sequence of rows.
Shape(r) == <<Len(r), Len(r[1])>>

Size(r) == Len(r) * Len(r[1])

RECURSIVE ConcatRows(_, _)
ConcatRows(r, k) == IF k = 0 THEN <<>> ELSE ConcatRows(r, k - 1) \o r[k]

\* band.reshape(-1): the rows of the raster one after the other (C order).
Flatten(r) == ConcatRows(r, Len(r))

\* Mutant of Reshape: Fortran order, the first index runs fastest.
Reshape_FortranOrder(v, shape) ==
    [r \in 1..shape[1] |-> [c \in 1..shape[2] |-> v[(c - 1) * shape[1] + r]]]

\* np.reshape(v, shape) for a size that fits: C order, the last index runs fastest.
Reshape(v, shape) ==
    [r \in 1..shape[1] |-> [c \in 1..shape[2] |-> v[(r - 1) * shape[2] + c]]]

\* X.transpose() of a 2D array.
Transpose(M) == [c \in 1..Len(M[1]) |-> [r \in 1..Len(M) |-> M[r][c]]]

\* An h*w raster with pairwise different pixels s, s+1, ...
Raster(h, w, s) == [r \in 1..h |-> [c \in 1..w |-> s + (r - 1) * w + (c - 1)]]

Rasters(seeds) == {Raster(h, w, s) : h \in 1..MaxDim, w \in 1..MaxDim, s \in seeds}

\* Lists of 1..MaxBands rasters with the same number of pixels.
BandLists ==
    {bl \in SeqsUpTo(Rasters(0..MaxVal), MaxBands) :
        \A k \in 1..Len(bl) : Size(bl[k]) = Size(bl[1])}

\* An integer rows*cols matrix with pairwise different entries.
IntMat(rows, cols, s) ==
    [r \in 1..rows |-> [c \in 1..cols |-> IntVal(s + (r - 1) * cols + c)]]

\* ------------------------------------------------------------ compute_Xi
\* np.log of an integer: log(0) is -inf and the log of a negative number is nan.
Log(x) ==
    IF x < 0 THEN NaN
    ELSE IF x = 0 THEN Inf(-1)
    ELSE IF x = 1 THEN IntVal(0)
    ELSE [k |-> "ln", n |-> x, d |-> 1, m |-> 1]

\* np.log(band.reshape(-1) - dw)
XiOf(band, dw) == LET flat == Flatten(band)
                  IN  [t \in 1..Len(flat) |-> Log(flat[t] - dw)]

\* Mutant of XiLengthsDiffer: only too few rasters are refused.
XiLengthsDiffer_OnlyShorter(bs, dws) == Len(bs) < Len(dws)

\* len(bands) != len(list_deep_water)
XiLengthsDiffer(bs, dws) == Len(bs) # Len(dws)

InitXi ==
    /\ op = "compute_Xi"
    /\ pc = "xi_start"
    /\ bands \in BandLists
    /\ list_deep_water \in SeqsUpTo(0..MaxVal, MaxBands)
    /\ list_Xi = <<>>
    /\ list_X = <<>> /\ Z = <<>> /\ list_slope = <<>> /\ list_intercept = <<>>
    /\ b = <<>> /\ N = 0 /\ A = <<>> /\ j = 0
    /\ X = <<>> /\ Yi = <<>>
    /\ di = <<>> /\ reshaped = <<>>

\* if len(bands)!=len(list_deep_water): raise ...; list_Xi=[]
Xi_Check ==
    /\ pc = "xi_start"
    /\ IF XiLengthsDiffer(bands, list_deep_water)
       THEN pc' = "raised" /\ err' = "Exception" /\ UNCHANGED <<list_Xi, it>>
       ELSE pc' = "xi_loop" /\ list_Xi' = <<>> /\ it' = 0 /\ UNCHANGED err
    /\ UNCHANGED <<op, ret, bands, list_deep_water, lrVars, aijVars, A, i, diVars, rsVars>>

\* One pass of the loop over zip(bands, list_deep_water).
Xi_Append ==
    /\ pc = "xi_loop"
    /\ it < Len(bands) /\ it < Len(list_deep_water)
    /\ list_Xi' = Append(list_Xi, XiOf(At(bands, it), At(list_deep_water, it)))
    /\ it' = it + 1
    /\ UNCHANGED <<op, pc, err, ret, bands, list_deep_water, lrVars, aijVars, A, i,
                   diVars, rsVars>>

\* return(np.array(list_Xi))
Xi_Return ==
    /\ pc = "xi_loop"
    /\ ~(it < Len(bands) /\ it < Len(list_deep_water))
    /\ ret' = list_Xi
    /\ pc' = "done"
    /\ UNCHANGED <<op, err, it, bands, xiVars, lrVars, aijVars, A, i, diVars, rsVars>>

\* ------------------------------------------------------ linear_regression
RECURSIVE SumTo(_, _)
SumTo(s, k) == IF k = 0 THEN 0 ELSE SumTo(s, k - 1) + s[k]

Prod(s, t) == [k \in 1..Len(s) |-> s[k] * t[k]]

\* LinearRegression().fit(Z.reshape(-1,1), X): ordinary least squares with an
\* intercept.  With no variance in Z the least-squares solution of least norm
\* has coefficient 0.
Fit(x, z) ==
    LET M   == Len(z)
        sz  == SumTo(z, M)
        sx  == SumTo(x, M)
        num == M * SumTo(Prod(z, x), M) - sz * sx
        den == M * SumTo(Prod(z, z), M) - sz * sz
    IN  IF den = 0
        THEN [coef |-> IntVal(0), intercept |-> Fin(sx, M, 1)]
        ELSE [coef |-> Fin(num, den, 1),
              intercept |-> Fin(sx * den - num * sz, M * den, 1)]

\* Mutant of LrLengthsDiffer: only an Xi shorter than Z is refused.
LrLengthsDiffer_OnlyShorter(x, z) == Len(x) < Len(z)

\* len(X)!=len(Z)
LrLengthsDiffer(x, z) == Len(x) # Len(z)

\* Xi = a - s*z sampled at z = 1..len.
XVec(len, a, s) == [t \in 1..len |-> a - s * t]

\* The depths 1..len.
ZVec(len) == [t \in 1..len |-> t]

XVecs == {XVec(len, a, s) : len \in 1..MaxLen, a \in 0..MaxVal, s \in 0..MaxVal}

InitLR ==
    /\ op = "linear_regression"
    /\ pc = "lr_start"
    /\ list_X \in SeqsUpTo(XVecs, MaxBands)
    /\ Z \in {ZVec(len) : len \in 1..MaxLen}
    /\ list_slope = <<>> /\ list_intercept = <<>>
    /\ bands = <<>> /\ list_deep_water = <<>> /\ list_Xi = <<>>
    /\ b = <<>> /\ N = 0 /\ A = <<>> /\ j = 0
    /\ X = <<>> /\ Yi = <<>>
    /\ di = <<>> /\ reshaped = <<>>

\* list_slope=[]; list_intercept=[]
LR_Begin ==
    /\ pc = "lr_start"
    /\ list_slope' = <<>>
    /\ list_intercept' = <<>>
    /\ it' = 0
    /\ pc' = "lr_loop"
    /\ UNCHANGED <<op, err, ret, bands, xiVars, list_X, Z, aijVars, A, i, diVars, rsVars>>

\* One pass of the loop over list_X: the length check, then the fit.
LR_Band ==
    /\ pc = "lr_loop"
    /\ it < Len(list_X)
    /\ IF LrLengthsDiffer(At(list_X, it), Z)
       THEN /\ pc' = "raised"
            /\ err' = "Exception"
            /\ UNCHANGED <<list_slope, list_intercept, it>>
       ELSE /\ LET model == Fit(At(list_X, it), Z)
               IN  /\ list_slope' = Append(list_slope, Mul(IntVal(-1), model.coef))
                   /\ list_intercept' = Append(list_intercept, model.intercept)
            /\ it' = it + 1
            /\ UNCHANGED <<pc, err>>
    /\ UNCHANGED <<op, ret, bands, xiVars, list_X, Z, aijVars, A, i, diVars, rsVars>>

\* return(np.array(list_slope),np.array(list_intercept))
LR_Return ==
    /\ pc = "lr_loop"
    /\ it = Len(list_X)
    /\ ret' = <<list_slope, list_intercept>>
    /\ pc' = "done"
    /\ UNCHANGED <<op, err, it, bands, xiVars, lrVars, aijVars, A, i, diVars, rsVars>>

\* ------------------------------------------------------------------ Aij
RECURSIVE SumSq(_, _)
\* (b[:k]**2).sum(): the sum of the squares of the first k slopes.
SumSq(s, k) == IF k = 0 THEN 0 ELSE SumSq(s, k - 1) + s[k] * s[k]

\* Mutant of AijRule: the test j <= i made before the test for the last row.
AijRule_B5First(n, r, c) ==
    IF c <= r THEN "B5"
    ELSE IF r = n - 1 THEN "B2"
    ELSE IF c = r + 1 THEN "B6"
    ELSE "zero"

\* The branch of the if/elif chain taken for cell (r, c) of an n*n matrix.
AijRule(n, r, c) ==
    IF r = n - 1 THEN "B2"
    ELSE IF c <= r THEN "B5"
    ELSE IF c = r + 1 THEN "B6"
    ELSE "zero"

\* The 0-based elements of b that the branch reads by index (slices never fail).
AijReads(rule, r, c) ==
    IF rule = "B2" THEN {c}
    ELSE IF rule = "B5" THEN {r + 1, c}
    ELSE {}

\* Mutant of AijValue: B5 takes the slice b[:i+1] in both factors.
AijValue_SliceOffByOne(s, rule, r, c) ==
    IF rule = "B2"
    THEN Mul(IntVal(At(s, c)), PowNegHalf(SumSq(s, Len(s))))
    ELSE IF rule = "B5"
    THEN Mul(Mul(IntVal(At(s, r + 1) * At(s, c)), PowNegHalf(SumSq(s, r + 1))),
             PowNegHalf(SumSq(s, r + 1)))
    ELSE IF rule = "B6"
    THEN Mul(Mul(IntVal(-1), PowHalf(SumSq(s, r + 1))), PowNegHalf(SumSq(s, r + 2)))
    ELSE IntVal(0)

\* Mutant of AijValue: B6 without its factor -1.
AijValue_NoMinus(s, rule, r, c) ==
    IF rule = "B2"
    THEN Mul(IntVal(At(s, c)), PowNegHalf(SumSq(s, Len(s))))
    ELSE IF rule = "B5"
    THEN Mul(Mul(IntVal(At(s, r + 1) * At(s, c)), PowNegHalf(SumSq(s, r + 1))),
             PowNegHalf(SumSq(s, r + 2)))
    ELSE IF rule = "B6"
    THEN Mul(PowHalf(SumSq(s, r + 1)), PowNegHalf(SumSq(s, r + 2)))
    ELSE IntVal(0)

\* The value assigned to A[r,c] by the branch.
AijValue(s, rule, r, c) ==
    IF rule = "B2"
    THEN Mul(IntVal(At(s, c)), PowNegHalf(SumSq(s, Len(s))))
    ELSE IF rule = "B5"
    THEN Mul(Mul(IntVal(At(s, r + 1) * At(s, c)), PowNegHalf(SumSq(s, r + 1))),
             PowNegHalf(SumSq(s, r + 2)))
    ELSE IF rule = "B6"
    THEN Mul(Mul(IntVal(-1), PowHalf(SumSq(s, r + 1))), PowNegHalf(SumSq(s, r + 2)))
    ELSE IntVal(0)

Slopes == (-MaxSlope) .. MaxSlope

SlopeVectors == SeqsUpTo(Slopes, MaxN)

InitAij ==
    /\ op = "Aij"
    /\ pc = "aij_start"
    /\ b \in SlopeVectors
    /\ N = 0 /\ A = <<>> /\ j = 0
    /\ bands = <<>> /\ list_deep_water = <<>> /\ list_Xi = <<>>
    /\ list_X = <<>> /\ Z = <<>> /\ list_slope = <<>> /\ list_intercept = <<>>
    /\ X = <<>> /\ Yi = <<>>
    /\ di = <<>> /\ reshaped = <<>>

\* N = len(b); A = np.empty((N,N), dtype='float')
Aij_Begin ==
    /\ pc = "aij_start"
    /\ N' = Len(b)
    /\ A' = [r \in 1..Len(b) |-> [c \in 1..Len(b) |-> Uninit]]
    /\ i' = 0
    /\ j' = 0
    /\ pc' = "aij_loop"
    /\ UNCHANGED <<op, err, ret, it, bands, xiVars, lrVars, b, diVars, rsVars>>

\* One pass of the inner loop body: the assignment to A[i,j].
Aij_Cell ==
    /\ pc = "aij_loop"
    /\ i < N
    /\ LET rule == AijRule(N, i, j)
       IN  IF \A t \in AijReads(rule, i, j) : InRange(b, t)
           THEN /\ A' = [A EXCEPT ![i + 1][j + 1] = AijValue(b, rule, i, j)]
                /\ i' = IF j = N - 1 THEN i + 1 ELSE i
                /\ j' = IF j = N - 1 THEN 0 ELSE j + 1
                /\ UNCHANGED <<pc, err>>
           ELSE /\ pc' = "raised"
                /\ err' = "IndexError"
                /\ UNCHANGED <<A, i, j>>
    /\ UNCHANGED <<op, ret, it, bands, xiVars, lrVars, b, N, diVars, rsVars>>

\* return(A)
Aij_Return ==
    /\ pc = "aij_loop"
    /\ i = N
    /\ ret' = A
    /\ pc' = "done"
    /\ UNCHANGED <<op, err, it, bands, xiVars, lrVars, aijVars, A, i, diVars, rsVars>>

\* ------------------------------------------------------- depth_invariant
\* Mutant of Broadcastable: no stretching of an axis of length 1.
Broadcastable_Equal(c, n) == c = n

\* numpy broadcasting of a row of c values against an array whose last axis
\* has n values: the lengths agree or one of them is 1.
Broadcastable(c, n) == c = n \/ c = 1 \/ n = 1

RECURSIVE SumVals_DropLast(_, _)
\* Mutant of SumVals: the sum stops one value short.
SumVals_DropLast(row, k) ==
    IF k <= 1 THEN IntVal(0) ELSE Add(SumVals_DropLast(row, k - 1), row[k - 1])

RECURSIVE SumVals(_, _)
\* The sum of the first k values of a row, left to right.
SumVals(row, k) == IF k = 0 THEN IntVal(0) ELSE Add(SumVals(row, k - 1), row[k])

\* A[r,:]
RowOf(M, r) == At(M, r)

\* What Y_i(r, M, XX) raises: A[r,:] is indexed first, then the product is taken.
Y_iError(r, M, XX) ==
    IF ~InRange(M, r) THEN "IndexError"
    ELSE IF ~Broadcastable(Len(RowOf(M, r)), Len(XX)) THEN "ValueError"
    ELSE "none"

\* (A[r,:] * X.transpose()[...,:]).sum(1): the row is broadcast against each
\* row of X.transpose(), and the products are summed along axis 1.
Y_i(r, M, XX) ==
    LET row  == RowOf(M, r)
        XT   == Transpose(XX)
        wide == IF Len(row) = 1 THEN Len(XX) ELSE Len(row)
        prod == [p \in 1..Len(XT) |->
                    [k \in 1..wide |->
                        Mul(row[IF Len(row) = 1 THEN 1 ELSE k],
                            XT[p][IF Len(XX) = 1 THEN 1 ELSE k])]]
    IN  [p \in 1..Len(XT) |-> SumVals(prod[p], wide)]

\* The slopes as an N*1 matrix of Xi values.
Column(s) == [r \in 1..Len(s) |-> <<IntVal(s[r])>>]

InitDI ==
    /\ op = "depth_invariant"
    /\ pc = "di_start"
    /\ \E rows \in 1..MaxMat, cols \in 1..MaxMat, s \in 0..MaxVal :
          A = IntMat(rows, cols, s)
    /\ \E rows \in 1..MaxMat, cols \in 1..MaxPix, s \in 0..MaxVal :
          X = IntMat(rows, cols, s)
    /\ Yi = <<>>
    /\ b = <<>> /\ N = 0 /\ j = 0
    /\ bands = <<>> /\ list_deep_water = <<>> /\ list_Xi = <<>>
    /\ list_X = <<>> /\ Z = <<>> /\ list_slope = <<>> /\ list_intercept = <<>>
    /\ di = <<>> /\ reshaped = <<>>

\* The caller applies the matrix Aij returned to the slopes themselves:
\* depth_invariant(A, b.reshape(-1,1)).
DI_CallOnSlopes ==
    /\ op = "Aij"
    /\ pc = "done"
    /\ op' = "depth_invariant"
    /\ pc' = "di_start"
    /\ X' = Column(b)
    /\ ret' = <<>>
    /\ UNCHANGED <<err, it, bands, xiVars, lrVars, aijVars, A, i, Yi, rsVars>>

\* Yi = []
DI_Begin ==
    /\ pc = "di_start"
    /\ Yi' = <<>>
    /\ i' = 0
    /\ pc' = "di_loop"
    /\ UNCHANGED <<op, err, ret, it, bands, xiVars, lrVars, aijVars, A, X, rsVars>>

\* One pass of the loop over range(X.shape[0]): Yi.append(Y_i(i,A,X))
DI_Row ==
    /\ pc = "di_loop"
    /\ i < Len(X)
    /\ IF Y_iError(i, A, X) # "none"
       THEN /\ pc' = "raised"
            /\ err' = Y_iError(i, A, X)
            /\ UNCHANGED <<Yi, i>>
       ELSE /\ Yi' = Append(Yi, Y_i(i, A, X))
            /\ i' = i + 1
            /\ UNCHANGED <<pc, err>>
    /\ UNCHANGED <<op, ret, it, bands, xiVars, lrVars, aijVars, A, X, rsVars>>

\* return(np.array(Yi))
DI_Return ==
    /\ pc = "di_loop"
    /\ i = Len(X)
    /\ ret' = Yi
    /\ pc' = "done"
    /\ UNCHANGED <<op, err, it, bands, xiVars, lrVars, aijVars, A, i, diVars, rsVars>>

\* ------------------------------------------------------------ reshape_di
\* Mutant of ReshapeCount: the loop runs over zip(di, bands).
ReshapeCount_Zip(d, bs) == IF Len(d) < Len(bs) THEN Len(d) ELSE Len(bs)

\* range(di.shape[0]): the number of passes of the loop.
ReshapeCount(d, bs) == Len(d)

\* np.reshape(v, shape) fails unless the sizes agree.
Reshapable(v, shape) == Len(v) = shape[1] * shape[2]

\* What the pass for row r raises: bands[r] is indexed, then di[r,:] reshaped.
ReshapeError(d, bs, r) ==
    IF ~InRange(bs, r) THEN "IndexError"
    ELSE IF ~Reshapable(At(d, r), Shape(At(bs, r))) THEN "ValueError"
    ELSE "none"

\* np.reshape(di[r,:], shape) copies nothing: di[r,:] is a view of di, and a
\* 1D array always reshapes to a view.  The array returned is the place of its
\* data in di.
ViewOf(r, shape) == [row |-> r, shape |-> shape]

\* The contents of such an array, read through to the data of d.
RasterOf(d, view) == Reshape(At(d, view.row), view.shape)

\* The value a write stores: different from the value it replaces.
Overwrite(x) == -x - 1

\* Plain-integer matrices standing for di.
DiMat(rows, cols) == [r \in 1..rows |-> [c \in 1..cols |-> (r - 1) * cols + c]]

InitRS ==
    /\ op = "reshape_di"
    /\ pc = "rs_start"
    /\ \E rows \in 1..(MaxBands + 1), cols \in 1..(MaxDim * MaxDim) :
          di = DiMat(rows, cols)
    /\ bands \in SeqsUpTo(Rasters({0}), MaxBands)
    /\ reshaped = <<>>
    /\ list_deep_water = <<>> /\ list_Xi = <<>>
    /\ list_X = <<>> /\ Z = <<>> /\ list_slope = <<>> /\ list_intercept = <<>>
    /\ b = <<>> /\ N = 0 /\ A = <<>> /\ j = 0
    /\ X = <<>> /\ Yi = <<>>

\* The round trip: the caller flattens the rasters as compute_Xi does and
\* hands the rows to reshape_di.
InitRoundTrip ==
    /\ op = "round_trip"
    /\ pc = "rt_flatten"
    /\ bands \in BandLists
    /\ di = <<>> /\ reshaped = <<>>
    /\ list_deep_water = <<>> /\ list_Xi = <<>>
    /\ list_X = <<>> /\ Z = <<>> /\ list_slope = <<>> /\ list_intercept = <<>>
    /\ b = <<>> /\ N = 0 /\ A = <<>> /\ j = 0
    /\ X = <<>> /\ Yi = <<>>

\* di = np.array([band.reshape(-1) for band in bands])
RT_Flatten ==
    /\ pc = "rt_flatten"
    /\ di' = [k \in 1..Len(bands) |-> Flatten(bands[k])]
    /\ pc' = "rs_start"
    /\ UNCHANGED <<op, err, ret, it, bands, xiVars, lrVars, aijVars, A, i, diVars, reshaped>>

\* reshaped=[]
RS_Begin ==
    /\ pc = "rs_start"
    /\ reshaped' = <<>>
    /\ i' = 0
    /\ pc' = "rs_loop"
    /\ UNCHANGED <<op, err, ret, it, bands, xiVars, lrVars, aijVars, A, diVars, di>>

\* One pass of the loop: reshaped.append(np.reshape(di[i,:],np.shape(bands[i])))
RS_Row ==
    /\ pc = "rs_loop"
    /\ i < ReshapeCount(di, bands)
    /\ IF ReshapeError(di, bands, i) # "none"
       THEN /\ pc' = "raised"
            /\ err' = ReshapeError(di, bands, i)
            /\ UNCHANGED <<reshaped, i>>
       ELSE /\ reshaped' = Append(reshaped, ViewOf(i, Shape(At(bands, i))))
            /\ i' = i + 1
            /\ UNCHANGED <<pc, err>>
    /\ UNCHANGED <<op, ret, it, bands, xiVars, lrVars, aijVars, A, diVars, di>>

\* return(reshaped)
RS_Return ==
    /\ pc = "rs_loop"
    /\ i = ReshapeCount(di, bands)
    /\ ret' = reshaped
    /\ pc' = "rs_done"
    /\ UNCHANGED <<op, err, it, bands, xiVars, lrVars, aijVars, A, i, diVars, rsVars>>

\* After the call the caller writes one cell of a raster that was returned.
\* The raster is a view, so the write lands in the data of di.
Write_Returned ==
    /\ pc = "rs_done"
    /\ \E k \in 1..Len(ret) :
         \E r \in 1..ret[k].shape[1], c \in 1..ret[k].shape[2] :
            LET row == ret[k].row + 1
                col == (r - 1) * ret[k].shape[2] + c
            IN  di' = [di EXCEPT ![row][col] = Overwrite(@)]
    /\ pc' = "wrote_returned"
    /\ UNCHANGED <<op, err, ret, it, bands, xiVars, lrVars, aijVars, A, i, diVars, reshaped>>

\* After the call the caller writes one cell of di.
Write_Di ==
    /\ pc = "rs_done"
    /\ \E r \in 1..Len(di), c \in 1..Len(di[1]) :
          di' = [di EXCEPT ![r][c] = Overwrite(@)]
    /\ pc' = "wrote_di"
    /\ UNCHANGED <<op, err, ret, it, bands, xiVars, lrVars, aijVars, A, i, diVars, reshaped>>

\* ------------------------------------------------------------------ system
Init == /\ err = "none"
        /\ ret = <<>>
        /\ it = 0
        /\ i = 0
        /\ \/ InitXi
           \/ InitLR
           \/ InitAij
           \/ InitDI
           \/ InitRS
           \/ InitRoundTrip

Next == \/ Xi_Check
        \/ Xi_Append
        \/ Xi_Return
        \/ LR_Begin
        \/ LR_Band
        \/ LR_Return
        \/ Aij_Begin
        \/ Aij_Cell
        \/ Aij_Return
        \/ DI_CallOnSlopes
        \/ DI_Begin
        \/ DI_Row
        \/ DI_Return
        \/ RT_Flatten
        \/ RS_Begin
        \/ RS_Row
        \/ RS_Return
        \/ Write_Returned
        \/ Write_Di

Spec == Init /\ [][Next]_vars

\* ------------------------------------------------------------------ claims
RECURSIVE SquaresUpTo(_, _)
\* s[0]^2 + ... + s[k]^2 for the 0-based prefix 0..k.
SquaresUpTo(s, k) == IF k < 0 THEN 0 ELSE SquaresUpTo(s, k - 1) + At(s, k) * At(s, k)

\* The square of a finite value (n/d)*sqrt(m) is SqNum/SqDen.
SqNum(x) == x.n * x.n * x.m

SqDen(x) == x.d * x.d

\* A finite value x equals num/sqrt(den2) for integers num and den2 > 0:
\* same sign, same square.
IsQuotient(x, num, den2) ==
    /\ IsFinite(x)
    /\ Sgn(x.n) = Sgn(num)
    /\ SqNum(x) * den2 = num * num * SqDen(x)

\* A finite value x equals -sqrt(p)/sqrt(q) for integers p >= 0 and q > 0.
IsNegRootRatio(x, p, q) ==
    /\ IsFinite(x)
    /\ Sgn(x.n) = -Sgn(p)
    /\ SqNum(x) * q = p * SqDen(x)

\* C1: when Aij returns for N >= 2 slopes, every cell (i, j) has been written
\* and holds the value of exactly one of the four rules, tested in order: row
\* N-1 is slopes[j]/sqrt(sum of all squares); else for j <= i the cell is
\* slopes[i+1]*slopes[j]/(sqrt(sum(slopes[0..i]^2))*sqrt(sum(slopes[0..i+1]^2)));
\* else for j = i+1 it is -sqrt(sum(slopes[0..i]^2))/sqrt(sum(slopes[0..i+1]^2));
\* else 0.  A zero sum of squares under a division gives a non-finite cell.
C1_AijCellRules ==
    (op = "Aij" /\ pc = "done" /\ Len(b) >= 2) =>
        /\ ret = A
        /\ Len(A) = Len(b)
        /\ \A r \in Range0(Len(b)), c \in Range0(Len(b)) :
              LET cell == A[r + 1][c + 1]
                  T    == SquaresUpTo(b, Len(b) - 1)
                  p    == SquaresUpTo(b, r)
                  q    == SquaresUpTo(b, r + 1)
              IN  /\ Len(A[r + 1]) = Len(b)
                  /\ cell.k \in {"fin", "inf", "nan"}
                  /\ IF r = Len(b) - 1
                     THEN IF T > 0 THEN IsQuotient(cell, At(b, c), T)
                                   ELSE ~IsFinite(cell)
                     ELSE IF c <= r
                     THEN IF p * q > 0
                          THEN IsQuotient(cell, At(b, r + 1) * At(b, c), p * q)
                          ELSE ~IsFinite(cell)
                     ELSE IF c = r + 1
                     THEN IF q > 0 THEN IsNegRootRatio(cell, p, q)
                                   ELSE ~IsFinite(cell)
                     ELSE IsZero(cell)

\* C1 witness: Aij has returned a matrix of at least 3*3 cells from non-zero
\* slopes, so each of the four rules has assigned a cell.
C1_Witness ==
    /\ op = "Aij" /\ pc = "done" /\ Len(b) >= 3
    /\ \A k \in 1..Len(b) : b[k] # 0
    /\ \E k \in 1..Len(b) : b[k] < 0

\* C2: for slopes b (N >= 2, no zero prefix sum), the matrix Aij(b) applied to
\* b gives 0 in every component but the last, and a non-zero last component.
C2_RotatedSlopes ==
    (op = "depth_invariant" /\ b # <<>> /\ Len(b) >= 2 /\ b[1] # 0) =>
        /\ pc # "raised"
        /\ pc = "done" =>
              /\ Len(ret) = Len(b)
              /\ \A r \in 1..Len(b) : Len(ret[r]) = 1
              /\ \A r \in 1..(Len(b) - 1) : IsZero(ret[r][1])
              /\ IsFinite(ret[Len(b)][1]) /\ ~IsZero(ret[Len(b)][1])

\* C2 witness: the product has been returned for three non-zero slopes.
C2_Witness ==
    /\ op = "depth_invariant" /\ pc = "done" /\ Len(b) >= 3
    /\ \A k \in 1..Len(b) : b[k] # 0

RECURSIVE DotInt(_, _, _, _, _)
\* sum over k <= n of M[r][k] * XX[k][p] for integer matrices.
DotInt(M, XX, r, p, n) ==
    IF n = 0 THEN 0 ELSE DotInt(M, XX, r, p, n - 1) + M[r][n].n * XX[n][p].n

\* C3: for an N*N matrix A and an N*P matrix X, depth_invariant returns the N*P
\* matrix with Y[i][p] = sum over k of A[i,k]*X[k,p]; row i is Y_i(i, A, X) and
\* the rows are in increasing order of i.
C3_DepthInvariantProduct ==
    (op = "depth_invariant" /\ b = <<>> /\ Len(A) = Len(X) /\ Len(A[1]) = Len(X)) =>
        /\ pc # "raised"
        /\ pc = "done" =>
              /\ Len(ret) = Len(X)
              /\ \A r \in 1..Len(X) :
                    /\ Len(ret[r]) = Len(X[1])
                    /\ ret[r] = Y_i(r - 1, A, X)
                    /\ \A p \in 1..Len(X[1]) :
                          ret[r][p] = IntVal(DotInt(A, X, r, p, Len(X)))

\* C3 witness: a product of at least 2*2 by 2*2 has been returned.
C3_Witness ==
    /\ op = "depth_invariant" /\ b = <<>> /\ pc = "done"
    /\ Len(A) = Len(X) /\ Len(A[1]) = Len(X)
    /\ Len(X) >= 2 /\ Len(X[1]) >= 2

\* C4: flattening each raster into a row and handing the rows to reshape_di
\* with the rasters gives back, in band order, rasters of the same shape with
\* the same value at every (row, column).
C4_RoundTrip ==
    (op = "round_trip") =>
        /\ pc # "raised"
        /\ pc = "rs_done" =>
              /\ Len(ret) = Len(bands)
              /\ \A k \in 1..Len(bands) :
                    /\ ret[k].shape = Shape(bands[k])
                    /\ RasterOf(di, ret[k]) = bands[k]

\* C4 witness: two rasters of different shapes, one of them with two rows and
\* two columns or more, have made the round trip.
C4_Witness ==
    /\ op = "round_trip" /\ pc = "rs_done" /\ Len(bands) >= 2
    /\ \E k \in 1..Len(bands) : Len(bands[k]) >= 2 /\ Len(bands[k][1]) >= 2
    /\ bands[1] # bands[2]

\* C5: compute_Xi with len(bands) != len(list_deep_water) raises before any band
\* is transformed and returns nothing; with equal lengths it does not raise and
\* returns one Xi vector per band, in band order.
C5_XiLengthCheck ==
    (op = "compute_Xi") =>
        /\ Len(bands) # Len(list_deep_water) =>
              /\ pc \in {"xi_start", "raised"}
              /\ pc = "raised" => err = "Exception"
              /\ list_Xi = <<>>
              /\ ret = <<>>
        /\ Len(bands) = Len(list_deep_water) =>
              /\ pc # "raised" /\ err = "none"
              /\ pc = "done" =>
                    /\ Len(ret) = Len(bands)
                    /\ \A k \in 1..Len(bands) :
                          /\ Len(ret[k]) = Size(bands[k])
                          /\ \A r \in 1..Len(bands[k]), c \in 1..Len(bands[k][1]) :
                                ret[k][(r - 1) * Len(bands[k][1]) + c]
                                    = Log(bands[k][r][c] - list_deep_water[k])

\* C5 witness: the call has raised on lists of different lengths.
C5_Witness ==
    op = "compute_Xi" /\ pc = "raised" /\ Len(bands) # Len(list_deep_water)

\* C6: linear_regression checks the bands in order and raises at the first Xi
\* whose length differs from Z's: no later band is checked or fitted, and no
\* slopes or intercepts are returned, not even those fitted before.
C6_RegressionLengthCheck ==
    (op = "linear_regression" /\ pc # "lr_start") =>
        /\ Len(list_slope) = it /\ Len(list_intercept) = it
        /\ \A k \in 1..it : Len(list_X[k]) = Len(Z)
        /\ pc = "raised" =>
              /\ err = "Exception"
              /\ ret = <<>>
              /\ it < Len(list_X)
              /\ Len(list_X[it + 1]) # Len(Z)
        /\ pc = "done" =>
              /\ it = Len(list_X)
              /\ ret = <<list_slope, list_intercept>>

\* C6 witness: the call has raised at the second band, after fitting the first.
C6_Witness ==
    op = "linear_regression" /\ pc = "raised" /\ it = 1 /\ Len(list_slope) = 1

\* C7 (as amended): depth_invariant raises exactly when A has fewer rows than
\* X, or when the number of columns of A differs from the number of rows of X
\* and neither is 1; otherwise it returns one row per row of X, also for
\* shapes that break the precondition.
C7_ShapeErrors ==
    (op = "depth_invariant" /\ b = <<>> /\ pc \in {"done", "raised"}) =>
        LET R  == Len(A)
            C  == Len(A[1])
            Nx == Len(X)
            fails == R < Nx \/ (C # Nx /\ C # 1 /\ Nx # 1)
        IN  /\ pc = "raised" <=> fails
            /\ pc = "raised" => err \in {"IndexError", "ValueError"} /\ ret = <<>>
            /\ pc = "done" =>
                  /\ Len(ret) = Nx
                  /\ \A r \in 1..Nx : Len(ret[r]) = Len(X[1])

\* C7 witness: a result has been returned for a matrix A that is not N*N.
C7_Witness ==
    /\ op = "depth_invariant" /\ b = <<>> /\ pc = "done"
    /\ ~(Len(A) = Len(X) /\ Len(A[1]) = Len(X))

\* C7 as stated: with shapes that break the precondition (A not N*N for the N
\* rows of X) depth_invariant never returns a result.
C7_Original ==
    (op = "depth_invariant" /\ b = <<>> /\ ~(Len(A) = Len(X) /\ Len(A[1]) = Len(X)))
        => pc # "done"

Min(x, y) == IF x < y THEN x ELSE y

\* C8 (as amended): reshape_di raises exactly when di has more rows than there
\* are bands, or when some row i of di has a length different from the pixel
\* count of bands[i]; with no more rows than bands, all fitting, it returns one
\* raster per row of di, of the shape of the band of that index.
C8_ReshapeErrors ==
    (op = "reshape_di" /\ pc \in {"rs_done", "raised"}) =>
        LET R == Len(di)
            fails == \/ R > Len(bands)
                     \/ \E k \in 1..Min(R, Len(bands)) : Len(di[k]) # Size(bands[k])
        IN  /\ pc = "raised" <=> fails
            /\ pc = "raised" => err \in {"IndexError", "ValueError"} /\ ret = <<>>
            /\ pc = "rs_done" =>
                  /\ Len(ret) = R
                  /\ \A k \in 1..R : ret[k].shape = Shape(bands[k])

\* C8 witness: a list has been returned for a di with fewer rows than bands.
C8_Witness ==
    op = "reshape_di" /\ pc = "rs_done" /\ Len(di) < Len(bands)

\* C8 as stated: reshape_di returns a list only when di has exactly len(bands)
\* rows, each of the length of the pixel count of its band.
C8_Original ==
    (op = "reshape_di" /\ pc = "rs_done") =>
        /\ Len(di) = Len(bands)
        /\ \A k \in 1..Len(bands) : Len(di[k]) = Size(bands[k])

\* C9 as stated: the rasters returned by reshape_di do not alias its inputs: a
\* write to a cell of a returned raster leaves di and bands unchanged, and a
\* write to di leaves the returned rasters unchanged.
C9_NoAliasing ==
    [][/\ (pc = "rs_done" /\ pc' = "wrote_returned") => (di' = di /\ bands' = bands)
       /\ (pc = "rs_done" /\ pc' = "wrote_di") =>
             \A k \in 1..Len(ret) : RasterOf(di', ret[k]) = RasterOf(di, ret[k])]_vars

\* C10 (as amended): for a single slope Aij reads no index out of range: cell
\* (0, 0) is in row N-1, takes the rule of the last row, and Aij returns the
\* 1*1 matrix [slopes[0]/sqrt(slopes[0]^2)]: 1 or -1, or nan for a zero slope.
C10_SingleBand ==
    (op = "Aij" /\ Len(b) = 1) =>
        /\ pc # "raised" /\ err = "none"
        /\ pc = "done" =>
              /\ Len(ret) = 1 /\ Len(ret[1]) = 1
              /\ ret[1][1] = IF b[1] = 0 THEN NaN ELSE IntVal(Sgn(b[1]))

\* C10 witness: Aij has returned for a single non-zero slope.
C10_Witness ==
    op = "Aij" /\ pc = "done" /\ Len(b) = 1 /\ b[1] # 0

\* C10 as stated: for a single slope the call reads a slope index out of range
\* instead of producing a 1*1 matrix.
C10_Original ==
    (op = "Aij" /\ Len(b) = 1 /\ pc \in {"done", "raised"}) =>
        (pc = "raised" /\ err = "IndexError")

====
